---- MODULE Spec2Model ----
(***************************************************************************)
(* Model of src/make_units.rs of the dimensioned crate: the unit systems   *)
(* generated by make_units! / make_units_adv!, the type-level operations   *)
(* on their dimension vectors (Mul, Div, Pow, Root, Recip), the FmtDim     *)
(* formatter, the __make_base_types! recursion and the unit! grammar.      *)
(*                                                                         *)
(* A dimension vector $System<E1, ..., EN> is a sequence of N integers.    *)
(* A type that fails to resolve is the empty sequence (Unresolved).        *)
(* Formatted text is the sequence of the characters / print tokens written.*)
(***************************************************************************)
EXTENDS Integers, Sequences, FiniteSets, TLC

VARIABLES macro, allowed_roots, types, op, lhs, rhs, deg, expr, out, text, steps, prev

vars == <<macro, allowed_roots, types, op, lhs, rhs, deg, expr, out, text, steps, prev>>

(***************************************************************************)
(* Bounds of the model and constants of the program.                       *)
(***************************************************************************)
\* the markers imported by the generated code: N9 .. N1, Z0, P1 .. P9
MaxExp == 9
\* number of base units of a declared system
MaxUnits == 2
\* largest max-root marker used in a base block
MaxRoot == 4
\* largest exponent magnitude of the right operand drawn for Mul / Div
MaxRhs == 2
\* length of a chain of operations
MaxSteps == 2
\* number of operands of a unit! expression
MaxOperands == 3

Exps == -MaxExp .. MaxExp
Unresolved == << >>

Abs(x) == IF x < 0 THEN -x ELSE x

(***************************************************************************)
(* Type-level integers (the markers and their operator traits).  Each      *)
(* operation yields <<c>> when it resolves and << >> when it does not.     *)
(***************************************************************************)
Integer(x) == x \in Exps

IntAdd(a, b) == IF Integer(a + b) THEN <<a + b>> ELSE << >>

IntSub(a, b) == IF Integer(a - b) THEN <<a - b>> ELSE << >>

IntNeg(a) == IF Integer(-a) THEN <<-a>> ELSE << >>

IntMul(a, b) == IF Integer(a * b) THEN <<a * b>> ELSE << >>

IntDiv(a, b) ==
    IF b # 0 /\ \E q \in Exps : q * b = a
    THEN <<CHOOSE q \in Exps : q * b = a>>
    ELSE << >>

(***************************************************************************)
(* The generated struct and the five operator impls.                       *)
(***************************************************************************)
\* $System<params...>: parameters left out take the default Z0
System(params, n) == [i \in 1..n |-> IF i <= Len(params) THEN params[i] ELSE 0]

\* a type built from per-slot outputs exists only if every where-bound does
Resolve(slots) ==
    IF \A i \in 1..Len(slots) : slots[i] # << >>
    THEN [i \in 1..Len(slots) |-> slots[i][1]]
    ELSE Unresolved

\* faulty variants of the impls, used to test the properties below
MulOutput_Sub(V, W) == Resolve([i \in 1..Len(V) |-> IntSub(V[i], W[i])])

MulOutput_Unchecked(V, W) == [i \in 1..Len(V) |-> V[i] + W[i]]

MulOutput(V, W) == Resolve([i \in 1..Len(V) |-> IntAdd(V[i], W[i])])

DivOutput(V, W) == Resolve([i \in 1..Len(V) |-> IntSub(V[i], W[i])])

PowOutput_Add(V, R) == Resolve([i \in 1..Len(V) |-> IntAdd(V[i], R)])

PowOutput(V, R) == Resolve([i \in 1..Len(V) |-> IntMul(V[i], R)])

RootOutput_Partial(V, R) ==
    [i \in 1..Len(V) |-> IF IntDiv(V[i], R) # << >> THEN IntDiv(V[i], R)[1] ELSE V[i]]

RootOutput_Trunc(V, R) ==
    IF R = 0 THEN Unresolved
    ELSE [i \in 1..Len(V) |->
             IF (V[i] < 0) = (R < 0) THEN Abs(V[i]) \div Abs(R) ELSE -(Abs(V[i]) \div Abs(R))]

RootOutput(V, R) == Resolve([i \in 1..Len(V) |-> IntDiv(V[i], R)])

RecipOutput_Same(V) == V

RecipOutput(V) == Resolve([i \in 1..Len(V) |-> IntNeg(V[i])])

\* pub type $Unitless = $System;  impl Dimensionless for $Unitless {}
Unitless(n) == System(<< >>, n)

Dimensionless(V) == V = Unitless(Len(V))

(***************************************************************************)
(* Generation: the base block and __make_base_types!.                      *)
(***************************************************************************)
\* tokens and type names of the documented Fruit system
print_tokens == <<"a", "b", "c", "m", "w">>

TypeNames == <<"Apple", "Banana", "Cucumber", "Mango", "Watermelon">>

\* make_units! hands every base unit to make_units_adv! with P1
make_units(n) == [i \in 1..n |-> 1]

\* faulty variant: the accumulated zeros are dropped
make_base_types_RootFirst(pending, Zeros, n) ==
    [k \in 1..Len(pending) |-> System(<<pending[k]>>, n)]

RECURSIVE make_base_types_rec(_, _, _)
make_base_types_rec(pending, Zeros, n) ==
    IF Len(pending) >= 2
    THEN <<System(Zeros \o <<Head(pending)>>, n)>>
             \o make_base_types_rec(Tail(pending), <<0>> \o Zeros, n)
    ELSE <<System(Zeros \o <<Head(pending)>>, n)>>

make_base_types(pending, Zeros, n) == make_base_types_rec(pending, Zeros, n)

(***************************************************************************)
(* unit!: a token sequence  T1 op T2 op ... Tk  over base type names.      *)
(***************************************************************************)
TypeOf(name, tys) == tys[CHOOSE k \in 1..Len(tys) : TypeNames[k] = name]

\* <unit!(..) as Mul<unit!(..)>>::Output exists only if both operands do
MulTypes(a, b) == IF a = Unresolved \/ b = Unresolved THEN Unresolved ELSE MulOutput(a, b)

DivTypes(a, b) == IF a = Unresolved \/ b = Unresolved THEN Unresolved ELSE DivOutput(a, b)

RECURSIVE unit_rec(_, _)
unit_rec(tokens, tys) ==
    IF Len(tokens) >= 3 /\ tokens[2] = "*"
    THEN MulTypes(unit_rec(<<tokens[1]>>, tys), unit_rec(Tail(Tail(tokens)), tys))
    ELSE IF Len(tokens) >= 3 /\ tokens[2] = "/"
    THEN DivTypes(unit_rec(<<tokens[1]>>, tys), unit_rec(Tail(Tail(tokens)), tys))
    ELSE TypeOf(tokens[1], tys)

unit(tokens, tys) == unit_rec(tokens, tys)

RECURSIVE ExprsOf(_, _)
ExprsOf(k, n) ==
    IF k = 1 THEN {<<TypeNames[t]>> : t \in 1..n}
    ELSE {<<TypeNames[t], o>> \o e : t \in 1..n, o \in {"*", "/"}, e \in ExprsOf(k - 1, n)}

Exprs(n) == UNION {ExprsOf(k, n) : k \in 1..MaxOperands}

(***************************************************************************)
(* FmtDim::fmt.                                                            *)
(***************************************************************************)
Digit(d) == <<"0", "1", "2", "3", "4", "5", "6", "7", "8", "9">>[d + 1]

RECURSIVE Digits(_)
Digits(x) == IF x < 10 THEN <<Digit(x)>> ELSE Digits(x \div 10) \o <<Digit(x % 10)>>

\* "{}" of an i32
FmtI32(x) == IF x < 0 THEN <<"-">> \o Digits(-x) ELSE Digits(x)

\* i32 % and / : the remainder takes the sign of the dividend, the quotient truncates
RustRem(a, b) == IF a < 0 THEN -((-a) % Abs(b)) ELSE a % Abs(b)

RustDiv(a, b) ==
    IF (a < 0) = (b < 0) THEN Abs(a) \div Abs(b) ELSE -(Abs(a) \div Abs(b))

\* "{:.2}" of  e as f32 / r as f32 : hundredths rounded to nearest, ties to even
\* (a quotient of two markers is a tie only when it is an exact f32)
FmtF32(e, r) ==
    LET num == 100 * Abs(e)
        den == Abs(r)
        q   == num \div den
        rem == num % den
        h   == IF 2 * rem > den THEN q + 1
               ELSE IF 2 * rem < den THEN q
               ELSE IF q % 2 = 0 THEN q ELSE q + 1
        sgn == IF (e < 0) # (r < 0) THEN <<"-">> ELSE << >>
    IN  sgn \o Digits(h \div 100) \o <<".", Digit((h \div 10) % 10), Digit(h % 10)>>

\* the  if first {..} else if exp != 0 { write!(f, "*") }  step
Separator(first, exp) == IF first THEN << >> ELSE IF exp # 0 THEN <<"*">> ELSE << >>

\* faulty variant: the exp == root arm is missing
Term_NoBare(root, exp, token) ==
    IF exp = 0 THEN << >>
    ELSE IF RustRem(exp, root) = 0 THEN <<token, "^">> \o FmtI32(RustDiv(exp, root))
    ELSE <<token, "^">> \o FmtF32(exp, root)

\* the  match exp {..}  step
Term(root, exp, token) ==
    IF exp = 0 THEN << >>
    ELSE IF exp = root THEN <<token>>
    ELSE IF RustRem(exp, root) = 0 THEN <<token, "^">> \o FmtI32(RustDiv(exp, root))
    ELSE <<token, "^">> \o FmtF32(exp, root)

RECURSIVE FmtLoop(_, _, _, _, _)
FmtLoop(i, first, roots, exponents, acc) ==
    IF i > Len(exponents) THEN acc
    ELSE FmtLoop(i + 1, FALSE, roots, exponents,
                 acc \o Separator(first, exponents[i])
                     \o Term(roots[i], exponents[i], print_tokens[i]))

fmt(roots, exponents) == FmtLoop(1, TRUE, roots, exponents, << >>)

(***************************************************************************)
(* State machine.  A state is one declared unit system (macro,             *)
(* allowed_roots, the base type aliases in types) and the last type-level  *)
(* operation checked against it: its operands, degree or expression and    *)
(* the type (out) or text it produced.  prev is the vector a two-step      *)
(* expression started from.                                                *)
(***************************************************************************)
N == Len(allowed_roots)

Vectors(n) == [1..n -> Exps]

SmallVectors(n) == [1..n -> -MaxRhs .. MaxRhs]

Degrees == Exps

\* the base blocks a declaration can carry
Declared(m, roots) ==
    /\ macro = m
    /\ allowed_roots = roots
    /\ types = make_base_types(roots, << >>, Len(roots))

InitDecl ==
    \E n \in 1..MaxUnits :
        \/ Declared("make_units", make_units(n))
        \/ \E roots \in [1..n -> 1..MaxRoot] : Declared("make_units_adv", roots)

NoOp ==
    /\ op = "none"
    /\ rhs = << >>
    /\ deg = 0
    /\ expr = << >>
    /\ out = Unresolved
    /\ text = << >>
    /\ steps = 0
    /\ prev = << >>

\* a freshly declared system
Init == InitDecl /\ NoOp /\ lhs = << >>

\* any left operand of a make_units! system
InitOps ==
    /\ \E n \in 1..MaxUnits : Declared("make_units", make_units(n))
    /\ NoOp
    /\ lhs \in Vectors(N)

\* any vector of any declared system
InitFmt == InitDecl /\ NoOp /\ lhs \in Vectors(N)

\* the types an expression over the system can name: the aliases, and the last result
Avail == {types[k] : k \in 1..N} \cup {Unitless(N)} \cup (IF out = Unresolved THEN {} ELSE {out})

Step(o, p) ==
    /\ steps < MaxSteps
    /\ steps' = steps + 1
    /\ op' = o
    /\ prev' = p
    /\ UNCHANGED <<macro, allowed_roots, types>>

Mul(L, R) ==
    \E v \in L, w \in R :
        /\ Step("Mul", << >>)
        /\ lhs' = v /\ rhs' = w /\ deg' = 0 /\ expr' = << >> /\ text' = << >>
        /\ out' = MulOutput(v, w)

Div(L, R) ==
    \E v \in L, w \in R :
        /\ Step("Div", << >>)
        /\ lhs' = v /\ rhs' = w /\ deg' = 0 /\ expr' = << >> /\ text' = << >>
        /\ out' = DivOutput(v, w)

Pow(L, D) ==
    \E v \in L, r \in D :
        /\ Step("Pow", << >>)
        /\ lhs' = v /\ rhs' = << >> /\ deg' = r /\ expr' = << >> /\ text' = << >>
        /\ out' = PowOutput(v, r)

Root(L, D) ==
    \E v \in L, r \in D :
        /\ Step("Root", << >>)
        /\ lhs' = v /\ rhs' = << >> /\ deg' = r /\ expr' = << >> /\ text' = << >>
        /\ out' = RootOutput(v, r)

Recip(L) ==
    \E v \in L :
        /\ Step("Recip", << >>)
        /\ lhs' = v /\ rhs' = << >> /\ deg' = 0 /\ expr' = << >> /\ text' = << >>
        /\ out' = RecipOutput(v)

Fmt(L) ==
    \E v \in L :
        /\ Step("Fmt", << >>)
        /\ lhs' = v /\ rhs' = << >> /\ deg' = 0 /\ expr' = << >>
        /\ out' = Unresolved
        /\ text' = fmt(allowed_roots, v)

\* pub type $Derived = unit!(...), part of the declaration
Derived ==
    /\ op = "none"
    /\ \E e \in Exprs(N) :
        /\ Step("unit", << >>)
        /\ lhs' = << >> /\ rhs' = << >> /\ deg' = 0 /\ text' = << >>
        /\ expr' = e
        /\ out' = unit(e, types)

\* a declaration, and one operation over the types it defines
Next ==
    \/ op = "none" /\ Mul(Avail, Avail)
    \/ op = "none" /\ Div(Avail, Avail)
    \/ op = "none" /\ Pow(Avail, Degrees)
    \/ op = "none" /\ Root(Avail, Degrees)
    \/ op = "none" /\ Recip(Avail)
    \/ op = "none" /\ Fmt(Avail)
    \/ Derived

Spec == Init /\ [][Next]_vars

\* chains of operations over the types of a make_units! system
InitChain ==
    /\ \E n \in 1..MaxUnits : Declared("make_units", make_units(n))
    /\ NoOp
    /\ lhs = << >>

NextChain ==
    \/ Mul(Avail, Avail)
    \/ Div(Avail, Avail)
    \/ Pow(Avail, Degrees)
    \/ Root(Avail, Degrees)
    \/ Recip(Avail)
    \/ Fmt(Avail)
    \/ Derived

SpecChain == InitChain /\ [][NextChain]_vars

\* <<V as Pow<R>>::Output as Root<R>>::Output
RootOfPow ==
    /\ op = "Pow" /\ out # Unresolved
    /\ Step("Root", lhs)
    /\ lhs' = out /\ rhs' = << >> /\ deg' = deg /\ expr' = << >> /\ text' = << >>
    /\ out' = RootOutput(out, deg)

\* <V as Mul<<V as Recip>::Output>>::Output
MulByRecip ==
    /\ op = "Recip" /\ out # Unresolved
    /\ Step("Mul", lhs)
    /\ lhs' = lhs /\ rhs' = out /\ deg' = 0 /\ expr' = << >> /\ text' = << >>
    /\ out' = MulOutput(lhs, out)

\* one operation on a drawn vector, then the two compositions
NextOps ==
    \/ op = "none" /\ Mul({lhs}, SmallVectors(N))
    \/ op = "none" /\ Div({lhs}, SmallVectors(N))
    \/ op = "none" /\ Pow({lhs}, Degrees)
    \/ op = "none" /\ Root({lhs}, Degrees)
    \/ op = "none" /\ Recip({lhs})
    \/ RootOfPow
    \/ MulByRecip

SpecOps == InitOps /\ [][NextOps]_vars

\* the formatter on a drawn vector
NextFmt == op = "none" /\ Fmt({lhs})

SpecFmt == InitFmt /\ [][NextFmt]_vars

(***************************************************************************)
(* Properties.                                                             *)
(***************************************************************************)
IsVector(v) == Len(v) = N /\ \A i \in 1..N : v[i] \in -MaxExp .. MaxExp

Zero == [i \in 1..N |-> 0]

\* C1: when every component sum lies in -9..9, combine(V, W) resolves to the
\* vector of the sums V[i] + W[i], and combine(W, V) is the same vector.
C1_MulAddsExponents ==
    (op = "Mul" /\ \A i \in 1..N : lhs[i] + rhs[i] \in -MaxExp .. MaxExp)
        => /\ IsVector(out)
           /\ \A i \in 1..N : out[i] = lhs[i] + rhs[i]
           /\ MulOutput(rhs, lhs) = out

C1_Witness ==
    op = "Mul" /\ prev = << >> /\ lhs = <<3, -2>> /\ rhs = <<1, 2>> /\ out = <<4, 0>>

\* the nonzero terms of a vector, joined by one "*" between consecutive terms
RECURSIVE JoinedTerms(_, _, _, _)
JoinedTerms(i, printed, roots, exponents) ==
    IF i > Len(exponents) THEN << >>
    ELSE IF exponents[i] = 0 THEN JoinedTerms(i + 1, printed, roots, exponents)
    ELSE (IF printed THEN <<"*">> ELSE << >>)
             \o Term(roots[i], exponents[i], print_tokens[i])
             \o JoinedTerms(i + 1, TRUE, roots, exponents)

\* C2: the formatted text is the terms of the nonzero slots in declaration order
\* with a single "*" between consecutive printed terms, none before the first
\* printed term and none after the last.
C2_SeparatorsOnlyBetweenTerms ==
    op = "Fmt" => text = JoinedTerms(1, FALSE, allowed_roots, lhs)

\* x written with two decimals, for x = h / 100
Dec2(h) == Digits(h \div 100) \o <<".", Digit((h \div 10) % 10), Digit(h % 10)>>

\* the forms C3 allows for one slot
TermForms(r, e, token) ==
    IF e = 0 THEN {<< >>}
    ELSE IF e = r THEN {<<token>>}
    ELSE IF \E q \in Exps : q * r = e
    THEN {<<token, "^">> \o FmtI32(q) : q \in {x \in Exps : x * r = e}}
    ELSE {<<token, "^">> \o (IF e < 0 THEN <<"-">> ELSE << >>) \o Dec2(h) :
              h \in {x \in {(100 * Abs(e)) \div r, (100 * Abs(e)) \div r + 1} :
                         2 * Abs(x * r - 100 * Abs(e)) <= r}}

RECURSIVE TextForms(_, _, _)
TextForms(i, roots, exponents) ==
    IF i > Len(exponents) THEN {<< >>}
    ELSE {t \o rest : t \in TermForms(roots[i], exponents[i], print_tokens[i]),
                      rest \in TextForms(i + 1, roots, exponents)}

IsStar(c) == c = "*"

NotStar(c) == ~IsStar(c)

\* C3: apart from the separators, each slot with exponent e and max-root r
\* contributes nothing (e = 0), the bare token (e = r), token^q with q = e / r
\* (e another nonzero multiple of r) or token^x with x = e / r to two decimals.
C3_TermForms ==
    op = "Fmt" => SelectSeq(text, NotStar) \in TextForms(1, allowed_roots, lhs)

C3_Witness ==
    /\ op = "Fmt" /\ allowed_roots = <<2, 3>> /\ lhs = <<1, -3>>
    /\ text = <<"a", "^", "0", ".", "5", "0", "*", "b", "^", "-", "1">>

\* exponent of slot i of a `*` / `/` chain read from the left
RECURSIVE LeftExp(_, _)
LeftExp(tokens, i) ==
    IF Len(tokens) = 1 THEN TypeOf(tokens[1], types)[i]
    ELSE LET k == Len(tokens)
             l == LeftExp(SubSeq(tokens, 1, k - 2), i)
             r == TypeOf(tokens[k], types)[i]
         IN  IF tokens[k - 1] = "*" THEN l + r ELSE l - r

\* C4: unit! resolves a chain of `*` and `/` left-associatively: each operator
\* applies to everything on its left and the single operand on its right.
C4_LeftAssociative ==
    (op = "unit" /\ out # Unresolved) => \A i \in 1..N : out[i] = LeftExp(expr, i)

\* C5: root(V, R), R >= 1, resolves exactly when R divides every exponent of V,
\* and then every exponent of the result is V[i] / R.
C5_RootAllOrNothing ==
    (op = "Root" /\ deg >= 1)
        => /\ (out # Unresolved) <=> (\A i \in 1..N : lhs[i] % deg = 0)
           /\ out # Unresolved => IsVector(out) /\ \A i \in 1..N : out[i] * deg = lhs[i]

C5_Witness ==
    op = "Root" /\ prev = << >> /\ lhs = <<4, 3>> /\ deg = 2 /\ out = Unresolved

\* C6: for R # 0 with pow(V, R) in range, root(pow(V, R), R) resolves and is V.
C6_RootOfPowRoundTrip ==
    (op = "Root" /\ prev # << >> /\ deg # 0) => out = prev

C6_Witness ==
    op = "Root" /\ prev = <<2, -3>> /\ deg = -3 /\ lhs = <<-6, 9>> /\ out = <<2, -3>>

\* C7: reciprocal(V) is the component-wise negation of V, combine(V, reciprocal(V))
\* is the all-zero vector, and that vector alone is Dimensionless.
C7_RecipIsInverse ==
    /\ op = "Recip" => /\ IsVector(out)
                       /\ \A i \in 1..N : out[i] = -lhs[i]
                       /\ Dimensionless(lhs) <=> lhs = Zero
    /\ (op = "Mul" /\ prev # << >>) => out = Zero /\ Dimensionless(out)

C7_Witness ==
    op = "Mul" /\ prev = <<9, -4>> /\ lhs = <<9, -4>> /\ rhs = <<-9, 4>> /\ out = <<0, 0>>

\* C8: the k-th base type has the k-th unit's max-root in slot k and zero in the
\* other N - 1 slots; under make_units! that max-root is 1.
C8_BaseTypes ==
    /\ Len(types) = N
    /\ \A k \in 1..N :
        /\ Len(types[k]) = N
        /\ \A i \in 1..N : types[k][i] = IF i = k THEN allowed_roots[k] ELSE 0
        /\ macro = "make_units" => types[k][k] = 1

C8_Witness ==
    /\ macro = "make_units_adv" /\ allowed_roots = <<2, 3>>
    /\ types = <<(<<2, 0>>), (<<0, 3>>)>>
    /\ op = "unit"

\* C9: on the base type of a unit declared with max-root M, root of degree R in
\* 1..9 resolves exactly when R divides M: never for R > M, and for M = 1 only
\* for R = 1.
C9_MaxRootDictatesRoots ==
    \A k \in 1..N :
        (op = "Root" /\ lhs = types[k] /\ deg \in 1..MaxExp)
            => /\ (out # Unresolved) <=> (allowed_roots[k] % deg = 0)
               /\ deg > allowed_roots[k] => out = Unresolved
               /\ allowed_roots[k] = 1 => ((out # Unresolved) <=> deg = 1)

C9_Witness ==
    /\ op = "Root" /\ allowed_roots = <<4, 1>> /\ lhs = <<4, 0>> /\ deg = 2
    /\ out = <<2, 0>>

\* the exact (unbounded) exponents an operation asks for
Exact(i) ==
    CASE op = "Mul" -> lhs[i] + rhs[i]
      [] op = "Div" -> lhs[i] - rhs[i]
      [] op = "Pow" -> lhs[i] * deg
      [] op = "Recip" -> -lhs[i]
      [] OTHER -> 0

Closed ==
    /\ op \in {"Mul", "Div", "Pow", "Root", "Recip"}
         => /\ IsVector(lhs)
            /\ op \in {"Mul", "Div"} => IsVector(rhs)
            /\ out = Unresolved \/ IsVector(out)
            /\ (\E i \in 1..N : Exact(i) \notin -MaxExp .. MaxExp) => out = Unresolved
    /\ op = "unit" => (out = Unresolved \/ IsVector(out))

\* C10: along any chain of Mul, Div, Pow, Root and Recip from the base and
\* dimensionless types, an operation either fails to resolve or yields a vector
\* of the N declared slots with every exponent in -9..9; a result with a slot
\* outside -9..9 yields no vector; the declared types and the operands stay
\* as they were.
C10_ClosedUnderOperations ==
    [][/\ Closed'
       /\ types' = types /\ allowed_roots' = allowed_roots
       /\ lhs' \in Avail \cup {<< >>}
       /\ rhs' \in Avail \cup {<< >>}]_vars

C10_Witness ==
    /\ op = "Mul" /\ steps = 2 /\ lhs = <<9, 0>> /\ rhs = <<1, 0>>
    /\ out = Unresolved

====
